---- MODULE Spec2Model ----
(***************************************************************************)
(* A model of the three behavioural units of mxmnci/portfolio-website:     *)
(*   - the useSaveScrollPosition hook (localStorage + scroll listener),    *)
(*   - the Comments component (utteranc.es script injection),              *)
(*   - the Apollo Sandbox preflight script of the OAuth article            *)
(*     (validateConfig + TokenManager).                                    *)
(* Each unit has its own specification (SpecScroll, SpecComments,          *)
(* SpecToken); Spec is their interleaving.                                 *)
(***************************************************************************)
EXTENDS Integers, Sequences, FiniteSets, TLC

VARIABLES
    \* ---- useSaveScrollPosition -----------------------------------------
    localStorage,   \* browser storage: function from the keys present to strings
    scrollY,        \* window.scrollY
    scrollTarget,   \* the smooth scroll the window was asked for and has not done yet
    listeners,      \* 'scroll' listeners registered on document (closures)
    mounted,        \* mounted[i]: the effect of hook instance i is active
    closure,        \* closure[i]: the saveScrollPosition closure of i's latest effect
    mountCount,     \* mountCount[i]: effect runs of instance i so far
    lastMount,      \* history: what the latest mount read, requested and wrote
    lastScroll,     \* history: the latest scroll event
    writtenKeys,    \* history: storage keys written since the page loaded
    \* ---- Comments ------------------------------------------------------
    clock,          \* Date.now(), in milliseconds
    attached,       \* attached[c]: the container div of instance c is in the document
    innerHTML,      \* innerHTML[c]: the children of c's container, each a div
                    \* [id, scripts] with the number of script elements in it
    effectRuns,     \* effectRuns[c]: runs of the mount effect of instance c
    renders,        \* renders[c]: instances rendered in slot c of the page so far
    \* ---- preflight script (TokenManager) -------------------------------
    env,            \* explorer.environment: key -> value
    now,            \* Math.floor(Date.now() / 1000)
    pc,             \* where the script is: idle, refresh, authorize, token, done, threw
    thrown,         \* what threw, when pc = "threw"
    token,          \* this.token
    refreshToken,   \* this.refreshToken
    result,         \* the value getAccessToken resolved to, when pc = "done"
    writes,         \* history: explorer.environment.set calls of this run, in order
    requests,       \* history: requests of this run, in order
    errors,         \* history: console.error calls of this run
    startEnv,       \* history: the environment when this run started
    refreshResp,    \* history: the response to this run's refresh request
    tokenResp,      \* history: the response to this run's authorization_code request
    runs            \* runs of the script so far

scrollVars == <<localStorage, scrollY, scrollTarget, listeners, mounted, closure,
                mountCount, lastMount, lastScroll, writtenKeys>>

commentVars == <<clock, attached, innerHTML, effectRuns, renders>>

tokenVars == <<env, now, pc, thrown, token, refreshToken, result, writes, requests,
               errors, startEnv, refreshResp, tokenResp, runs>>

vars == <<localStorage, scrollY, scrollTarget, listeners, mounted, closure,
          mountCount, lastMount, lastScroll, writtenKeys,
          clock, attached, innerHTML, effectRuns, renders,
          env, now, pc, thrown, token, refreshToken, result, writes, requests,
          errors, startEnv, refreshResp, tokenResp, runs>>

----------------------------------------------------------------------------
(* Bounds *)
MaxY == 11          \* scroll offsets range over 0..MaxY
MaxMounts == 2      \* effect runs per hook instance
NumHooks == 2       \* hook instances on the page

MaxClock == 2       \* Date.now() ranges over 0..MaxClock
NumComments == 2    \* Comments instances on the page, in document order
MaxEffectRuns == 2  \* runs of the mount effect per Comments instance
MaxRenders == 2     \* Comments instances rendered, one after the other, per slot
MaxTime == 2        \* the time in seconds ranges over 0..MaxTime
MaxRuns == 2        \* runs of the preflight script

Hooks == 1..NumHooks
Boxes == 1..NumComments

----------------------------------------------------------------------------
(* Strings are sequences of characters; numbers <-> strings as JavaScript  *)
(* converts them.                                                          *)

NaN == -1

DigitChars == <<"0", "1", "2", "3", "4", "5", "6", "7", "8", "9">>

IsDigit(c) == \E d \in 1..10 : DigitChars[d] = c

DigitVal(c) == (CHOOSE d \in 1..10 : DigitChars[d] = c) - 1

RECURSIVE String(_)
\* String(n) for a non-negative integer: its decimal digits
String(n) == IF n < 10 THEN <<DigitChars[n + 1]>>
               ELSE Append(String(n \div 10), DigitChars[(n % 10) + 1])

RECURSIVE DigitsValue(_)
DigitsValue(s) == IF s = <<>> THEN 0
                  ELSE 10 * DigitsValue(SubSeq(s, 1, Len(s) - 1)) + DigitVal(s[Len(s)])

\* Number(s): "" is 0, a digit string is its value, anything else is NaN
Number(s) == IF \A k \in 1..Len(s) : IsDigit(s[k]) THEN DigitsValue(s) ELSE NaN

----------------------------------------------------------------------------
(* localStorage *)

ScrollKey == <<"scrollPosition">>
OtherKey == <<"theme">>

\* localStorage.getItem(key): null when the key is absent
getItem(ls, key) == IF key \in DOMAIN ls THEN [null |-> FALSE, val |-> ls[key]]
                    ELSE [null |-> TRUE, val |-> <<>>]

\* localStorage.setItem(key, value): the value is stored as a string
setItem(ls, key, str) == [k \in (DOMAIN ls) \cup {key} |-> IF k = key THEN str ELSE ls[k]]

\* if (scrollPosition): null and "" are falsy, every other string is truthy
Truthy(item) == ~item.null /\ item.val # <<>>

NoTarget == [pending |-> FALSE, top |-> 0]

scrollTo_NotNull(item) == IF ~item.null THEN <<Number(item.val)>> ELSE <<>>

\* lines 6-12: the tops of the scrolls the mount asks the window for
scrollTo(item) == IF Truthy(item) THEN <<Number(item.val)>> ELSE <<>>

saveScrollPosition_Max(ls, y) ==
    IF Truthy(getItem(ls, ScrollKey)) /\ Number(getItem(ls, ScrollKey).val) > y
    THEN ls ELSE setItem(ls, ScrollKey, String(y))

\* lines 14-16
saveScrollPosition(ls, y) == setItem(ls, ScrollKey, String(y))

\* document.addEventListener('scroll', fn)
addEventListener(ls, fn) == ls \cup {fn}

removeEventListener_Lost(ls, fn) == ls

\* document.removeEventListener('scroll', fn)
removeEventListener(ls, fn) == ls \ {fn}

\* a scroll event runs every registered listener; each stores window.scrollY
DispatchScroll(lsn, ls, y) == IF lsn = {} THEN ls ELSE saveScrollPosition(ls, y)

\* window.scrollTo clamps the offset to the document; a non-finite top is 0
Clamp(top) == IF top = NaN THEN 0 ELSE IF top > MaxY THEN MaxY ELSE top

StoredStrings == {<<>>, <<"x">>} \cup {String(n) : n \in {0, 7, 11}}

ScrollInit ==
    /\ \E present \in BOOLEAN, s \in StoredStrings :
          localStorage = IF present
                         THEN [k \in {ScrollKey, OtherKey} |-> IF k = ScrollKey THEN s ELSE <<"x">>]
                         ELSE [k \in {OtherKey} |-> <<"x">>]
    /\ scrollY = 0
    /\ scrollTarget = NoTarget
    /\ listeners = {}
    /\ mounted = [i \in Hooks |-> FALSE]
    /\ closure = [i \in Hooks |-> <<i, 0>>]
    /\ mountCount = [i \in Hooks |-> 0]
    /\ lastMount = [hook |-> 0, item |-> [null |-> TRUE, val |-> <<>>],
                    requested |-> <<>>, lsBefore |-> localStorage, lsAfter |-> localStorage]
    /\ lastScroll = [happened |-> FALSE, y |-> 0, mounted |-> FALSE]
    /\ writtenKeys = {}

\* lines 4-20: the effect runs on mount
Mount(i) ==
    /\ ~mounted[i]
    /\ mountCount[i] < MaxMounts
    /\ UNCHANGED <<localStorage, scrollY, lastScroll, writtenKeys>>
    /\ LET item == getItem(localStorage, ScrollKey)
           fn == <<i, mountCount[i] + 1>>
           tops == scrollTo(item)
       IN /\ scrollTarget' = IF tops = <<>> THEN scrollTarget
                              ELSE [pending |-> TRUE, top |-> tops[Len(tops)]]
          /\ listeners' = addEventListener(listeners, fn)
          /\ closure' = [closure EXCEPT ![i] = fn]
          /\ lastMount' = [hook |-> i, item |-> item,
                           requested |-> tops,
                           lsBefore |-> localStorage, lsAfter |-> localStorage']
    /\ mounted' = [mounted EXCEPT ![i] = TRUE]
    /\ mountCount' = [mountCount EXCEPT ![i] = @ + 1]
    /\ UNCHANGED <<commentVars, tokenVars>>

\* lines 22-24: the cleanup runs on unmount
Unmount(i) ==
    /\ mounted[i]
    /\ listeners' = removeEventListener(listeners, closure[i])
    /\ mounted' = [mounted EXCEPT ![i] = FALSE]
    /\ UNCHANGED <<localStorage, scrollY, scrollTarget, closure, mountCount,
                   lastMount, lastScroll, writtenKeys>>
    /\ UNCHANGED <<commentVars, tokenVars>>

\* the window's offset changes to y and the document gets a scroll event
ScrollEvent(y) ==
    /\ scrollY' = y
    /\ localStorage' = DispatchScroll(listeners, localStorage, y)
    /\ writtenKeys' = writtenKeys \cup
                      {k \in DOMAIN localStorage' :
                          k \notin DOMAIN localStorage \/ localStorage'[k] # localStorage[k]}
                      \cup (IF listeners = {} THEN {} ELSE {ScrollKey})
    /\ lastScroll' = [happened |-> TRUE, y |-> y, mounted |-> \E i \in Hooks : mounted[i]]

\* the user scrolls the page
UserScroll ==
    /\ \E y \in 0..MaxY : y # scrollY /\ ScrollEvent(y)
    /\ scrollTarget' = NoTarget
    /\ UNCHANGED <<listeners, mounted, closure, mountCount, lastMount>>
    /\ UNCHANGED <<commentVars, tokenVars>>

\* the window performs the scroll that a mount requested
SmoothScroll ==
    /\ scrollTarget.pending
    /\ scrollTarget' = NoTarget
    /\ IF Clamp(scrollTarget.top) # scrollY
       THEN ScrollEvent(Clamp(scrollTarget.top))
       ELSE UNCHANGED <<scrollY, localStorage, writtenKeys, lastScroll>>
    /\ UNCHANGED <<listeners, mounted, closure, mountCount, lastMount>>
    /\ UNCHANGED <<commentVars, tokenVars>>

NextScroll ==
    \/ \E i \in Hooks : Mount(i)
    \/ \E i \in Hooks : Unmount(i)
    \/ UserScroll
    \/ SmoothScroll

----------------------------------------------------------------------------
(* Comments.jsx *)

\* commentBox.current.innerHTML = `<div id="${commentNodeId}" />`
setInnerHTML(html, c, id) == [html EXCEPT ![c] = <<[id |-> id, scripts |-> 0]>>]

\* the boxes holding an element with this id
Holders(html, att, id) ==
    {c \in Boxes : att[c] /\ \E k \in 1..Len(html[c]) : html[c][k].id = id}

\* document.getElementById(id): the first element with this id in document
\* order, as <<box, index>>; <<0, 0>> stands for null
getElementById(html, att, id) ==
    IF Holders(html, att, id) = {} THEN <<0, 0>>
    ELSE LET c == CHOOSE b \in Holders(html, att, id) :
                      \A o \in Holders(html, att, id) : b <= o
         IN <<c, CHOOSE k \in 1..Len(html[c]) :
                    /\ html[c][k].id = id
                    /\ \A j \in 1..(k - 1) : html[c][j].id # id>>

\* element.appendChild(script)
appendChild(html, el) == [html EXCEPT ![el[1]][el[2]].scripts = @ + 1]

CommentsInit ==
    /\ clock = 0
    /\ attached = [c \in Boxes |-> FALSE]
    /\ innerHTML = [c \in Boxes |-> <<>>]
    /\ effectRuns = [c \in Boxes |-> 0]
    /\ renders = [c \in Boxes |-> 0]

\* line 21: the component renders and its container enters the document
Render(c) ==
    /\ ~attached[c]
    /\ renders[c] < MaxRenders
    /\ renders' = [renders EXCEPT ![c] = @ + 1]
    /\ attached' = [attached EXCEPT ![c] = TRUE]
    /\ innerHTML' = [innerHTML EXCEPT ![c] = <<>>]
    /\ effectRuns' = [effectRuns EXCEPT ![c] = 0]
    /\ UNCHANGED clock
    /\ UNCHANGED <<scrollVars, tokenVars>>

\* lines 6-19: the mount effect
CommentsEffect(c) ==
    /\ attached[c]
    /\ effectRuns[c] < MaxEffectRuns
    /\ LET commentNodeId == clock
           html == setInnerHTML(innerHTML, c, commentNodeId)
           el == getElementById(html, attached, commentNodeId)
       IN innerHTML' = appendChild(html, el)
    /\ effectRuns' = [effectRuns EXCEPT ![c] = @ + 1]
    /\ UNCHANGED <<clock, attached, renders>>
    /\ UNCHANGED <<scrollVars, tokenVars>>

\* the component unmounts and its container leaves the document
Remove(c) ==
    /\ attached[c]
    /\ attached' = [attached EXCEPT ![c] = FALSE]
    /\ innerHTML' = [innerHTML EXCEPT ![c] = <<>>]
    /\ effectRuns' = [effectRuns EXCEPT ![c] = 0]
    /\ UNCHANGED <<clock, renders>>
    /\ UNCHANGED <<scrollVars, tokenVars>>

\* a millisecond passes
Tick ==
    /\ clock < MaxClock
    /\ clock' = clock + 1
    /\ UNCHANGED <<attached, innerHTML, effectRuns, renders>>
    /\ UNCHANGED <<scrollVars, tokenVars>>

NextComments ==
    \/ \E c \in Boxes : Render(c)
    \/ \E c \in Boxes : CommentsEffect(c)
    \/ \E c \in Boxes : Remove(c)
    \/ Tick

----------------------------------------------------------------------------
(* The preflight script: JavaScript values *)

\* A string is the sequence of its '.'-separated segments (token.split('.'));
\* a segment is described by what atob + JSON.parse make of it.
Seg(name, dec, typ, alg, hasExp, exp) ==
    [name |-> name, dec |-> dec, typ |-> typ, alg |-> alg, hasExp |-> hasExp, exp |-> exp]

EmptySeg == Seg("", "throws", "", "", FALSE, 0)            \* "": JSON.parse("") throws
Opaque(name) == Seg(name, "throws", "", "", FALSE, 0)       \* not base64 of JSON
NullSeg == Seg("bnVsbA", "object-null", "", "", FALSE, 0)   \* base64 of 'null'
Header(typ, alg) == Seg("header", "object", typ, alg, FALSE, 0)
Payload(exp) == Seg("payload", "object", "", "", TRUE, exp)
NoExpPayload == Seg("payload", "object", "", "", FALSE, 0)  \* a payload without exp

Undefined == [undef |-> TRUE, segs |-> <<>>]
Str(segs) == [undef |-> FALSE, segs |-> segs]
EmptyString == Str(<<EmptySeg>>)

\* JavaScript truthiness of undefined and of strings
JsTruthy(v) == ~v.undef /\ v # EmptyString

EnvKeys == {"token", "refresh_token", "code_challenge", "code_verifier"}

\* explorer.environment.set(key, value)
EnvSet(e, key, v) == [e EXCEPT ![key] = v]

RECURSIVE EnvSetAll(_, _)
\* the environment after a sequence of <<key, value>> writes
EnvSetAll(e, ws) == IF ws = <<>> THEN e
                    ELSE EnvSetAll(EnvSet(e, ws[1][1], ws[1][2]), Tail(ws))

\* lines 94-98: TRUE when validateConfig returns, FALSE when it throws; every
\* other config value is a non-empty string literal
validateConfig(e) == JsTruthy(e["code_challenge"]) /\ JsTruthy(e["code_verifier"])

\* atob + decodeURIComponent + JSON.parse of one segment
Decode(seg) == IF seg.dec = "throws" THEN [threw |-> TRUE, val |-> seg]
               ELSE [threw |-> FALSE, val |-> seg]

\* lines 262-273: token.split('.')[1] is undefined for a token without '.',
\* and undefined.replace throws
parseJwt(t) == IF Len(t.segs) < 2 THEN [threw |-> TRUE, val |-> EmptySeg]
               ELSE Decode(t.segs[2])

isTokenExpired_Le(t, time) ==
    LET d == parseJwt(t)
    IN IF d.threw \/ d.val.dec = "object-null" THEN [threw |-> TRUE, val |-> FALSE]
       ELSE [threw |-> FALSE, val |-> d.val.hasExp /\ d.val.exp <= time]

\* lines 222-225: reading .exp of null throws; undefined < n is false
isTokenExpired(t, time) ==
    LET d == parseJwt(t)
    IN IF d.threw \/ d.val.dec = "object-null" THEN [threw |-> TRUE, val |-> FALSE]
       ELSE [threw |-> FALSE, val |-> d.val.hasExp /\ d.val.exp < time]

\* lines 233-255: everything that throws is caught and gives false
isValidTokenHeader(t) ==
    LET d == Decode(t.segs[1])
    IN /\ ~d.threw
       /\ d.val.dec = "object"
       /\ d.val.typ = "JWT"
       /\ d.val.alg \in {"HS256", "RS256"}

\* lines 116-121: what getAccessToken does before its first await
getAccessToken(t, r, time) ==
    IF JsTruthy(t) /\ isTokenExpired(t, time).threw THEN "throw"
    ELSE IF JsTruthy(t) /\ ~isTokenExpired(t, time).val /\ isValidTokenHeader(t) THEN "return"
    ELSE IF JsTruthy(r) THEN "refresh"
    ELSE "retrieve"

\* a response of explorer.fetch: the promise rejects, or the body is not JSON,
\* or the body is a JSON object with these fields
Reject == [kind |-> "reject", access_token |-> Undefined, refresh_token |-> Undefined,
           error |-> FALSE]
BadJson == [kind |-> "badjson", access_token |-> Undefined, refresh_token |-> Undefined,
            error |-> FALSE]
Json(a, r, err) == [kind |-> "json", access_token |-> a, refresh_token |-> r, error |-> err]

refreshAccessToken_NoCheck(resp) ==
    IF resp.kind # "json" THEN [threw |-> TRUE, val |-> Undefined]
    ELSE [threw |-> FALSE, val |-> resp.access_token]

\* lines 194-215: the outcome of refreshAccessToken for a response
refreshAccessToken(resp) ==
    IF resp.kind # "json" \/ resp.error THEN [threw |-> TRUE, val |-> Undefined]
    ELSE [threw |-> FALSE, val |-> resp.access_token]

\* lines 166-183: the tokens retrieveNewTokens returns for a response
retrieveNewTokens(resp) ==
    IF resp.kind = "reject" THEN [threw |-> TRUE, cause |-> "fetch",
                                  access_token |-> Undefined, refresh_token |-> Undefined]
    ELSE IF resp.kind = "badjson" THEN [threw |-> TRUE, cause |-> "JSON.parse",
                                        access_token |-> Undefined, refresh_token |-> Undefined]
    ELSE [threw |-> FALSE, cause |-> "",
          access_token |-> resp.access_token, refresh_token |-> resp.refresh_token]

refreshWrites_Both(a, r) == <<<<"token", a>>, <<"refresh_token", r>>>>

\* lines 123-124: the writes after a refresh
refreshWrites(a, r) == <<<<"token", a>>>>

retrieveWrites_Twice(a, r) == <<<<"token", a>>, <<"refresh_token", r>>, <<"token", a>>>>

\* lines 133-136: the writes after retrieveNewTokens
retrieveWrites(a, r) == <<<<"token", a>>, <<"refresh_token", r>>>>

\* the requests, by endpoint and grant
RefreshRequest == <<"token", "refresh_token">>
AuthorizeRequest == <<"authorize", "code">>
CodeRequest == <<"token", "authorization_code">>

\* what the OAuth server issues at a time
IssuedAccess(time) == {Str(<<Header("JWT", "RS256"), Payload(time + 1), Opaque(n)>>) :
                         n \in {"sigA", "sigB"}}
IssuedRefresh == Str(<<Opaque("refreshB")>>)

TokenEndpointResponses(time) ==
    {Reject, BadJson, Json(Undefined, Undefined, TRUE), Json(Undefined, Undefined, FALSE)}
    \cup {Json(a, IssuedRefresh, FALSE) : a \in IssuedAccess(time)}

\* what the environment may hold under 'token' when the script first runs: set
\* by an earlier session or by hand
StoredTokens ==
    {Undefined, EmptyString,
     Str(<<Opaque("abc")>>),
     Str(<<Header("JWT", "RS256"), Opaque("xyz"), Opaque("sig")>>),
     Str(<<Header("JWT", "RS256"), NullSeg, Opaque("sig")>>),
     Str(<<Header("JWT", "RS256"), NoExpPayload, Opaque("sig")>>)}
    \cup {Str(<<h, Payload(e), Opaque("sig")>>) :
            h \in {Header("JWT", "RS256"), Header("JWT", "HS256"), Header("JWT", "none"),
                   Header("", "RS256"), Opaque("abc"), NullSeg},
            e \in 0..MaxTime}

StoredRefreshTokens == {Undefined, EmptyString, Str(<<Opaque("refreshA")>>)}

NoResp == [got |-> FALSE, resp |-> Reject]

TokenInit ==
    /\ \E t \in StoredTokens, r \in StoredRefreshTokens,
          cc \in {Undefined, Str(<<Opaque("challenge")>>)},
          cv \in {Undefined, Str(<<Opaque("verifier")>>)} :
          env = [k \in EnvKeys |-> IF k = "token" THEN t
                                   ELSE IF k = "refresh_token" THEN r
                                   ELSE IF k = "code_challenge" THEN cc ELSE cv]
    /\ now \in 1..MaxTime
    /\ pc = "idle"
    /\ thrown = ""
    /\ token = Undefined
    /\ refreshToken = Undefined
    /\ result = Undefined
    /\ writes = <<>>
    /\ requests = <<>>
    /\ errors = <<>>
    /\ startEnv = env
    /\ refreshResp = NoResp
    /\ tokenResp = NoResp
    /\ runs = 1

\* lines 287-292 and 105-121: the script runs up to its first await
Run ==
    /\ pc = "idle"
    /\ IF ~validateConfig(env)
       THEN /\ pc' = "threw"
            /\ thrown' = "validateConfig"
            /\ UNCHANGED <<token, refreshToken, result, requests>>
       ELSE /\ token' = env["token"]
            /\ refreshToken' = env["refresh_token"]
            /\ LET step == getAccessToken(token', refreshToken', now)
               IN /\ pc' = CASE step = "throw" -> "threw"
                             [] step = "return" -> "done"
                             [] step = "refresh" -> "refresh"
                             [] OTHER -> "authorize"
                  /\ thrown' = IF step = "throw" THEN "parseJwt" ELSE ""
                  /\ result' = IF step = "return" THEN token' ELSE result
                  /\ requests' = CASE step = "refresh" -> <<RefreshRequest>>
                                   [] step = "retrieve" -> <<AuthorizeRequest>>
                                   [] OTHER -> <<>>
    /\ UNCHANGED <<env, now, writes, errors, startEnv, refreshResp, tokenResp, runs>>
    /\ UNCHANGED <<scrollVars, commentVars>>

\* lines 122-132: the refresh request is answered
RefreshResponse ==
    /\ pc = "refresh"
    /\ \E resp \in TokenEndpointResponses(now) :
          LET r == refreshAccessToken(resp)
          IN /\ refreshResp' = [got |-> TRUE, resp |-> resp]
             /\ IF r.threw
                THEN /\ errors' = Append(errors, "Failed to refresh access token:")
                     /\ requests' = Append(requests, AuthorizeRequest)
                     /\ pc' = "authorize"
                     /\ UNCHANGED <<token, env, writes, result>>
                ELSE /\ token' = r.val
                     /\ writes' = writes \o refreshWrites(r.val, refreshToken)
                     /\ env' = EnvSetAll(env, refreshWrites(r.val, refreshToken))
                     /\ result' = r.val
                     /\ pc' = "done"
                     /\ UNCHANGED <<errors, requests>>
    /\ UNCHANGED <<now, thrown, refreshToken, startEnv, tokenResp, runs>>
    /\ UNCHANGED <<scrollVars, commentVars>>

\* lines 157-166: explorer.oauth2Request resolves with a code, or rejects
AuthorizeResponse ==
    /\ pc = "authorize"
    /\ \E ok \in BOOLEAN :
          IF ok THEN /\ pc' = "token"
                     /\ requests' = Append(requests, CodeRequest)
                     /\ UNCHANGED thrown
          ELSE /\ pc' = "threw"
               /\ thrown' = "oauth2Request"
               /\ UNCHANGED requests
    /\ UNCHANGED <<env, now, token, refreshToken, result, writes, errors, startEnv,
                   refreshResp, tokenResp, runs>>
    /\ UNCHANGED <<scrollVars, commentVars>>

\* lines 166-183 and 132-137: the authorization_code request is answered
TokenResponse ==
    /\ pc = "token"
    /\ \E resp \in TokenEndpointResponses(now) :
          LET tokens == retrieveNewTokens(resp)
              ws == retrieveWrites(tokens.access_token, tokens.refresh_token)
          IN /\ tokenResp' = [got |-> TRUE, resp |-> resp]
             /\ IF tokens.threw
                THEN /\ pc' = "threw"
                     /\ thrown' = tokens.cause
                     /\ UNCHANGED <<token, refreshToken, env, writes, result>>
                ELSE /\ token' = tokens.access_token
                     /\ refreshToken' = tokens.refresh_token
                     /\ writes' = writes \o ws
                     /\ env' = EnvSetAll(env, ws)
                     /\ result' = tokens.access_token
                     /\ pc' = "done"
                     /\ UNCHANGED thrown
    /\ UNCHANGED <<now, requests, errors, startEnv, refreshResp, runs>>
    /\ UNCHANGED <<scrollVars, commentVars>>

\* the next GraphQL request: the preflight script is run again, later
NextRequest ==
    /\ pc \in {"done", "threw"}
    /\ runs < MaxRuns
    /\ runs' = runs + 1
    /\ \E t \in now..MaxTime : now' = t
    /\ pc' = "idle"
    /\ thrown' = ""
    /\ token' = Undefined
    /\ refreshToken' = Undefined
    /\ result' = Undefined
    /\ writes' = <<>>
    /\ requests' = <<>>
    /\ errors' = <<>>
    /\ startEnv' = env
    /\ refreshResp' = NoResp
    /\ tokenResp' = NoResp
    /\ UNCHANGED env
    /\ UNCHANGED <<scrollVars, commentVars>>

NextToken ==
    \/ Run
    \/ RefreshResponse
    \/ AuthorizeResponse
    \/ TokenResponse
    \/ NextRequest

----------------------------------------------------------------------------
ScrollIdle ==
    /\ ScrollInit
    /\ ScrollKey \notin DOMAIN localStorage

TokenIdle ==
    /\ TokenInit
    /\ now = 1
    /\ \A k \in EnvKeys : env[k] = Undefined

Init == ScrollInit /\ CommentsInit /\ TokenInit

Next == NextScroll \/ NextComments \/ NextToken

Spec == Init /\ [][Next]_vars

\* the hook alone: the page has no Comments yet and the script is not run
InitScroll == ScrollInit /\ CommentsInit /\ TokenIdle

SpecScroll == InitScroll /\ [][NextScroll]_vars

\* the Comments component alone
InitComments == ScrollIdle /\ CommentsInit /\ TokenIdle

SpecComments == InitComments /\ [][NextComments]_vars

\* the preflight script alone
InitToken == ScrollIdle /\ CommentsInit /\ TokenInit

SpecToken == InitToken /\ [][NextToken]_vars

----------------------------------------------------------------------------
(* Properties of useSaveScrollPosition *)

StoredAt(ls) == IF ScrollKey \in DOMAIN ls THEN ls[ScrollKey] ELSE <<>>

\* C1: on mount, a non-empty value stored under 'scrollPosition' makes the hook
\* request exactly one scroll, to top = Number(stored value); an absent or
\* empty value makes it request none; the mount writes nothing to localStorage.
C1_MountRestores ==
    lastMount.hook # 0 =>
        /\ StoredAt(lastMount.lsBefore) # <<>> =>
              lastMount.requested = <<Number(StoredAt(lastMount.lsBefore))>>
        /\ StoredAt(lastMount.lsBefore) = <<>> => lastMount.requested = <<>>
        /\ lastMount.lsAfter = lastMount.lsBefore

C1_Witness ==
    /\ lastMount.hook # 0
    /\ StoredAt(lastMount.lsBefore) = <<"7">>
    /\ lastMount.requested = <<7>>
    /\ scrollTarget = [pending |-> TRUE, top |-> 7]

\* C2: after a scroll event that happened while the hook was mounted, the value
\* stored under 'scrollPosition' is window.scrollY as it was at the most recent
\* scroll event, and no key other than 'scrollPosition' is ever written.
C2_MostRecentWriteWins ==
    /\ (lastScroll.happened /\ lastScroll.mounted) =>
          /\ ScrollKey \in DOMAIN localStorage
          /\ localStorage[ScrollKey] = String(lastScroll.y)
          /\ Number(localStorage[ScrollKey]) = lastScroll.y
    /\ writtenKeys \subseteq {ScrollKey}
    /\ OtherKey \in DOMAIN localStorage /\ localStorage[OtherKey] = <<"x">>

C2_Witness ==
    /\ lastScroll.happened /\ lastScroll.mounted
    /\ lastScroll.y = 3
    /\ localStorage[ScrollKey] = <<"3">>
    /\ StoredAt(lastMount.lsBefore) = <<"1", "1">>
    /\ writtenKeys = {ScrollKey}

ListenersOf(i) == {fn \in listeners : fn[1] = i}

\* C9: a hook instance has at most one scroll listener registered, and none
\* after its unmount, whatever the sequence of mounts and unmounts; a scroll
\* event while no hook is mounted leaves the stored offset unchanged.
C9_OneWriter ==
    /\ [](\A i \in Hooks : /\ Cardinality(ListenersOf(i)) <= 1
                           /\ ~mounted[i] => ListenersOf(i) = {})
    /\ [][((\A i \in Hooks : ~mounted[i]) /\ scrollY' # scrollY)
              => localStorage' = localStorage]_vars

C9_Witness ==
    /\ mountCount[1] = 2
    /\ ~mounted[1]
    /\ ListenersOf(1) = {}
    /\ lastScroll.happened /\ ~lastScroll.mounted
    /\ ScrollKey \in DOMAIN localStorage
    /\ Number(localStorage[ScrollKey]) # scrollY
    /\ writtenKeys = {ScrollKey}

----------------------------------------------------------------------------
(* Properties of Comments *)

\* C10: once the mount effect has run for an instance, its container holds
\* exactly one wrapper div and that div holds exactly one script element, also
\* when two instances are mounted on the same page.
C10_OneScriptPerContainer ==
    \A c \in Boxes :
        (attached[c] /\ effectRuns[c] >= 1) =>
            /\ Len(innerHTML[c]) = 1
            /\ innerHTML[c][1].scripts = 1

----------------------------------------------------------------------------
(* Properties of the preflight script *)

Called == pc # "idle" /\ thrown # "validateConfig"

RefreshFailed ==
    refreshResp.got /\ refreshResp.resp.kind = "json" /\ refreshResp.resp.error

RefreshSucceeded ==
    /\ refreshResp.got /\ refreshResp.resp.kind = "json" /\ ~refreshResp.resp.error
    /\ refreshResp.resp.access_token \in IssuedAccess(now)

\* a stored token with a JWT header of a known algorithm and an exp not yet passed
ValidStored(t, time) ==
    /\ ~t.undef
    /\ Len(t.segs) = 3
    /\ \E a \in {"HS256", "RS256"} : t.segs[1] = Header("JWT", a)
    /\ \E e \in time..(MaxTime + 1) : t.segs[2] = Payload(e)

\* a stored token whose payload carries an exp that has passed
ExpiredStored(t, time) ==
    /\ ~t.undef
    /\ Len(t.segs) = 3
    /\ \E e \in 0..(time - 1) : t.segs[2] = Payload(e)

\* a stored token that is not three segments with a decodable header and payload
Malformed(t) ==
    /\ ~t.undef
    /\ t # EmptyString
    /\ \/ Len(t.segs) # 3
       \/ t.segs[1].dec # "object"
       \/ t.segs[2].dec # "object"

\* C3: when the refresh request is answered with an error, the failure is
\* logged and not thrown, nothing is written for it, an authorize request and
\* then a token request follow, and on completion 'token' and 'refresh_token'
\* are written with the values of the token response.
C3_RefreshFailureFallsBack ==
    RefreshFailed =>
        /\ errors = <<"Failed to refresh access token:">>
        /\ Len(requests) >= 2
        /\ requests[1] = RefreshRequest /\ requests[2] = AuthorizeRequest
        /\ pc \in {"authorize", "token", "done", "threw"}
        /\ pc = "threw" => thrown \in {"oauth2Request", "fetch", "JSON.parse"}
        /\ pc # "done" => (writes = <<>> /\ env = startEnv)
        /\ pc = "done" =>
              /\ requests = <<RefreshRequest, AuthorizeRequest, CodeRequest>>
              /\ tokenResp.got
              /\ writes = <<<<"token", tokenResp.resp.access_token>>,
                            <<"refresh_token", tokenResp.resp.refresh_token>>>>
              /\ env["token"] = tokenResp.resp.access_token
              /\ env["refresh_token"] = tokenResp.resp.refresh_token
              /\ result = tokenResp.resp.access_token

C3_Witness ==
    /\ RefreshFailed
    /\ pc = "done"
    /\ env["token"] \in IssuedAccess(now)
    /\ env["refresh_token"] = IssuedRefresh
    /\ startEnv["refresh_token"] # IssuedRefresh
    /\ Len(errors) = 1

\* C4: a stored access token that is present, not expired and has a valid
\* header is returned as is: no request is made and the environment is left
\* as it was.
C4_ValidTokenReturned ==
    (Called /\ ValidStored(startEnv["token"], now)) =>
        /\ pc = "done"
        /\ result = startEnv["token"]
        /\ requests = <<>>
        /\ writes = <<>>
        /\ env = startEnv

C4_Witness ==
    /\ Called
    /\ ValidStored(startEnv["token"], now)
    /\ startEnv["token"].segs[2] = Payload(now)
    /\ pc = "done"
    /\ result = startEnv["token"]

\* C5: with an expired stored token, a refresh token and a successful refresh,
\* the new access token is written to 'token' and returned, no authorize
\* request is made and 'refresh_token' keeps its value.
C5_RefreshSucceeds ==
    (ExpiredStored(startEnv["token"], now) /\ JsTruthy(startEnv["refresh_token"])
        /\ RefreshSucceeded) =>
        /\ pc = "done"
        /\ result = refreshResp.resp.access_token
        /\ writes = <<<<"token", refreshResp.resp.access_token>>>>
        /\ env["token"] = refreshResp.resp.access_token
        /\ requests = <<RefreshRequest>>
        /\ env["refresh_token"] = startEnv["refresh_token"]

C5_Witness ==
    /\ ExpiredStored(startEnv["token"], now)
    /\ JsTruthy(startEnv["refresh_token"])
    /\ RefreshSucceeded
    /\ pc = "done"
    /\ env["token"] # startEnv["token"]
    /\ result \in IssuedAccess(now)

\* C6: whenever getAccessToken completes without throwing, it resolves to a
\* non-empty token string and 'token' holds that value.
C6_ResolvesToToken ==
    pc = "done" => (JsTruthy(result) /\ env["token"] = result)

\* C7: a malformed stored token does not make getAccessToken throw; it goes on
\* to the refresh or new-token path, and isValidTokenHeader is false for it
\* when its header is malformed.
C7_MalformedTokenTolerated ==
    (Called /\ Malformed(startEnv["token"])) =>
        /\ thrown # "parseJwt"
        /\ requests # <<>>
        /\ startEnv["token"].segs[1].dec # "object" => ~isValidTokenHeader(startEnv["token"])

\* C8: one run writes the environment at most twice, only 'token' and
\* 'refresh_token', each at most once; 'code_challenge' and 'code_verifier'
\* are never written.
C8_AtMostTwoWrites ==
    /\ Len(writes) <= 2
    /\ \A k \in 1..Len(writes) : writes[k][1] \in {"token", "refresh_token"}
    /\ \A j, k \in 1..Len(writes) : writes[j][1] = writes[k][1] => j = k
    /\ env["code_challenge"] = startEnv["code_challenge"]
    /\ env["code_verifier"] = startEnv["code_verifier"]
    /\ env = EnvSetAll(startEnv, writes)

C8_Witness ==
    /\ pc = "done"
    /\ Len(writes) = 2
    /\ writes[1][1] = "token" /\ writes[2][1] = "refresh_token"
    /\ env # startEnv

====
